---- MODULE Spec2Model ----
(***************************************************************************)
(* A model of sky_filter.py: the pixel classification and masking          *)
(* pipeline (rgb2hsv, make_sky_filter, filter_image) and the file driver   *)
(* (confirm, filter_path).                                                 *)
(*                                                                         *)
(* Samples are integers.  A uint8 sample n stands for the intensity n; a   *)
(* float sample n stands for n / FloatDen.  HSV channels are exact         *)
(* fractions <<numerator, denominator>> with a positive denominator, and   *)
(* the thresholds are hundredths, so every comparison of the code is an    *)
(* exact integer comparison here.                                          *)
(***************************************************************************)
EXTENDS Integers, Sequences, FiniteSets

VARIABLES heap, calls, pc, input, wref,
          fs, out, ppc, files, answer, prompts, log

vars == <<heap, calls, pc, input, wref, fs, out, ppc, files, answer, prompts, log>>
coreVars == <<heap, calls, pc, input, wref>>
pathVars == <<fs, out, ppc, files, answer, prompts, log>>

(***************************************************************************)
(* Bounds of the model.                                                    *)
(***************************************************************************)
FloatDen == 20
MaxCalls == 2
MaxPrompts == 2
MaxInputLen == 2

(***************************************************************************)
(* Constants of the program.                                               *)
(***************************************************************************)
ThreshDen == 100
HueLower == 45
HueUpper == 75
SatLower == 20
SatUpper == 90
ValLower == 25
White == 255
Uint8Max == 255

DTypes == {"uint8", "float64"}
Scale(dt) == IF dt = "uint8" THEN Uint8Max ELSE FloatDen

(***************************************************************************)
(* Arrays: [dtype, shape, px], px a function from the positions of the     *)
(* grid to the pixel's samples <<r, g, b>>.                                *)
(***************************************************************************)
Pos(shape) == (1..shape[1]) \X (1..shape[2])
Shapes == {<<1, 1>>, <<1, 2>>, <<2, 1>>}

Levels8 == {0, 25, 64, 128, 204, 250, 255}
LevelsF == {n \in 0..FloatDen : n \in {0, 2, 5, 9, 12, 16, 20}}
Levels(dt) == IF dt = "uint8" THEN Levels8 ELSE LevelsF

Palette8 == {<<0, 0, 0>>, <<255, 255, 255>>, <<128, 204, 255>>,
             <<255, 0, 0>>, <<25, 64, 64>>, <<0, 128, 255>>}
PaletteF == {<<0, 0, 0>>, <<FloatDen, FloatDen, FloatDen>>, <<9, 16, 20>>,
             <<FloatDen, 0, 0>>, <<2, 5, 5>>, <<0, 9, 20>>}
Palette(dt) == IF dt = "uint8" THEN Palette8 ELSE PaletteF

Pixels(dt) == Levels(dt) \X Levels(dt) \X Levels(dt)

InputImages ==
    UNION {
        { [dtype |-> dt, shape |-> sh, px |-> f] :
            f \in [Pos(sh) -> IF sh = <<1, 1>> THEN Pixels(dt) ELSE Palette(dt)] } :
        <<dt, sh>> \in DTypes \X Shapes }

(***************************************************************************)
(* rgb2hsv of scikit-image, per pixel.                                     *)
(***************************************************************************)
Max3(t) == IF t[1] >= t[2] /\ t[1] >= t[3] THEN t[1]
           ELSE IF t[2] >= t[3] THEN t[2] ELSE t[3]
Min3(t) == IF t[1] <= t[2] /\ t[1] <= t[3] THEN t[1]
           ELSE IF t[2] <= t[3] THEN t[2] ELSE t[3]

\* The hue before the division by 6, as a numerator over delta.  The code
\* assigns the red, then the green, then the blue formula, so the last
\* channel that equals the maximum decides.
HueSixths(t, v, delta) ==
    IF t[3] = v THEN 4 * delta + (t[1] - t[2])
    ELSE IF t[2] = v THEN 2 * delta + (t[3] - t[1])
    ELSE t[2] - t[3]

hsv_pixel(t, scale) ==
    LET v == Max3(t)
        delta == v - Min3(t)
    IN  [h |-> IF delta = 0 THEN <<0, 1>>
               ELSE <<HueSixths(t, v, delta) % (6 * delta), 6 * delta>>,
         s |-> IF delta = 0 THEN <<0, 1>> ELSE <<delta, v>>,
         v |-> <<v, scale>>]

rgb2hsv(image) ==
    [p \in DOMAIN image.px |-> hsv_pixel(image.px[p], Scale(image.dtype))]

(***************************************************************************)
(* make_sky_filter                                                         *)
(***************************************************************************)
Gt(q, n) == q[1] * ThreshDen > n * q[2]
Lt(q, n) == q[1] * ThreshDen < n * q[2]
Ind(b) == IF b THEN 1 ELSE 0

\* Variant: the upper hue bound taken as <= for <.
upper_mask_le(image_hsv) ==
    [p \in DOMAIN image_hsv |-> ~Gt(image_hsv[p].h, HueUpper)]

\* Variant: a predicate grid left out of the product.
no_mask(image_hsv) == [p \in DOMAIN image_hsv |-> TRUE]

lower_mask(image_hsv) ==
    [p \in DOMAIN image_hsv |-> Gt(image_hsv[p].h, HueLower)]
upper_mask(image_hsv) ==
    [p \in DOMAIN image_hsv |-> Lt(image_hsv[p].h, HueUpper)]
lower_saturation_mask(image_hsv) ==
    [p \in DOMAIN image_hsv |-> Gt(image_hsv[p].s, SatLower)]
upper_saturation_mask(image_hsv) ==
    [p \in DOMAIN image_hsv |-> Lt(image_hsv[p].s, SatUpper)]
value_mask(image_hsv) ==
    [p \in DOMAIN image_hsv |-> Gt(image_hsv[p].v, ValLower)]

\* Variant: the complement of the product.
mask_inverted(image) ==
    LET image_hsv == rgb2hsv(image)
    IN  [p \in DOMAIN image.px |->
            Ind(lower_mask(image_hsv)[p]) * Ind(upper_mask(image_hsv)[p])
            * Ind(lower_saturation_mask(image_hsv)[p])
            * Ind(upper_saturation_mask(image_hsv)[p])
            * Ind(value_mask(image_hsv)[p]) = 0]

\* The product of the five boolean grids.
mask(image) ==
    LET image_hsv == rgb2hsv(image)
    IN  [p \in DOMAIN image.px |->
            Ind(lower_mask(image_hsv)[p]) * Ind(upper_mask(image_hsv)[p])
            * Ind(lower_saturation_mask(image_hsv)[p])
            * Ind(upper_saturation_mask(image_hsv)[p])
            * Ind(value_mask(image_hsv)[p]) # 0]

\* Variant: the blue channel stacked without the mask.
dstack_wrong(image, m) ==
    [image EXCEPT !.px = [p \in DOMAIN image.px |->
        <<image.px[p][1] * Ind(m[p]), image.px[p][2] * Ind(m[p]), image.px[p][3]>>]]

\* np.dstack of the three channels, each multiplied by the mask.
dstack(image, m) ==
    [image EXCEPT !.px = [p \in DOMAIN image.px |->
        <<image.px[p][1] * Ind(m[p]), image.px[p][2] * Ind(m[p]),
          image.px[p][3] * Ind(m[p])>>]]

make_sky_filter(image) == dstack(image, mask(image))

(***************************************************************************)
(* filter_image                                                            *)
(***************************************************************************)
masked_pixels(sky_filter) ==
    [p \in DOMAIN sky_filter.px |-> \A c \in 1..3 : sky_filter.px[p][c] # 0]

\* A Python number stored into an array of the given dtype.
Store(dt, n) == IF dt = "uint8" THEN n ELSE n * FloatDen

\* Variant: the test colour (255, 0, 255) of the comment on line 84.
magenta(dt) == <<Store(dt, White), Store(dt, 0), Store(dt, White)>>

white(dt) == <<Store(dt, White), Store(dt, White), Store(dt, White)>>

\* image_copy[masked_pixels] = (255, 255, 255)
assign_white(image_copy, mp) ==
    [image_copy EXCEPT !.px = [p \in DOMAIN image_copy.px |->
        IF mp[p] THEN white(image_copy.dtype) ELSE image_copy.px[p]]]

\* Variant: the copy taken of sky_filter.
copied_sky_filter(image, sky_filter) == sky_filter

\* The array image.copy() starts from.
copied(image, sky_filter) == image

filter_image(image) ==
    LET sky_filter == make_sky_filter(image)
    IN  assign_white(copied(image, sky_filter), masked_pixels(sky_filter))

\* The buffer image.copy() returns: a new one.
\* Variant: no copy, the result is the argument's buffer.
copy_alias(h, ref) == ref

copy_ref(h, ref) == Len(h) + 1

(***************************************************************************)
(* The caller of the core.  heap holds the arrays that exist, heap[1] the  *)
(* caller's decoded image; calls logs every call with the argument as it   *)
(* was at the call and at the return, the returned array, and the grids    *)
(* the call computed.                                                      *)
(***************************************************************************)
Marker == <<1, 2, 3>>

InitCore ==
    /\ input \in InputImages
    /\ heap = <<input>>
    /\ calls = <<>>
    /\ pc = "idle"
    /\ wref = 0

InitPathIdle ==
    /\ fs = [kind |-> "missing", entries |-> {}, readable |-> {}, outdir |-> FALSE]
    /\ out = [existed |-> FALSE, saved |-> {}]
    /\ ppc = "off"
    /\ files = <<>>
    /\ answer = <<>>
    /\ prompts = 0
    /\ log = <<>>

Init == InitCore /\ InitPathIdle

\* sky = make_sky_filter(image), called by the caller on an array it holds
CallMakeSkyFilter ==
    /\ pc = "idle"
    /\ Len(calls) < MaxCalls
    /\ \E arg \in 1..Len(heap) :
        LET image == heap[arg]
            ret == make_sky_filter(image)
            res == Len(heap) + 1
            h2 == Append(heap, ret)
        IN  /\ heap' = h2
            /\ calls' = Append(calls,
                    [fn |-> "make_sky_filter", arg |-> arg, res |-> res,
                     before |-> image, after |-> h2[arg], ret |-> h2[res],
                     mask |-> mask(image),
                     masked |-> [p \in DOMAIN image.px |-> FALSE]])
    /\ UNCHANGED <<pc, input, wref>>
    /\ UNCHANGED pathVars

\* filtered = filter_image(image), called by the caller on an array it holds
CallFilterImage ==
    /\ pc = "idle"
    /\ Len(calls) < MaxCalls
    /\ \E arg \in 1..Len(heap) :
        LET image == heap[arg]
            sky_filter == make_sky_filter(image)
            mp == masked_pixels(sky_filter)
            res == copy_ref(heap, arg)
            h1 == IF res > Len(heap)
                  THEN Append(heap, copied(image, sky_filter)) ELSE heap
            h2 == [h1 EXCEPT ![res] = assign_white(h1[res], mp)]
        IN  /\ heap' = h2
            /\ calls' = Append(calls,
                    [fn |-> "filter_image", arg |-> arg, res |-> res,
                     before |-> image, after |-> h2[arg], ret |-> h2[res],
                     mask |-> mask(image), masked |-> mp])
    /\ UNCHANGED <<pc, input, wref>>
    /\ UNCHANGED pathVars

\* The caller writes a pixel of an array that a call returned.
CallerWrite ==
    /\ pc = "idle"
    /\ \E c \in 1..Len(calls) :
        \E p \in DOMAIN heap[calls[c].res].px :
            /\ heap' = [heap EXCEPT ![calls[c].res].px[p] = Marker]
            /\ wref' = calls[c].res
    /\ pc' = "written"
    /\ UNCHANGED <<calls, input>>
    /\ UNCHANGED pathVars

Next == CallMakeSkyFilter \/ CallFilterImage \/ CallerWrite

Spec == Init /\ [][Next]_vars

(***************************************************************************)
(* Properties of the core.                                                 *)
(***************************************************************************)
CallsOf(fn) == {i \in 1..Len(calls) : calls[i].fn = fn}
Black == <<0, 0, 0>>

\* The five strict predicates on the HSV triple of pixel p of an array,
\* written out on the fractions.
HueAboveLower(q) == q.h[1] * 100 > 45 * q.h[2]
HueBelowUpper(q) == q.h[1] * 100 < 75 * q.h[2]
SatAboveLower(q) == q.s[1] * 100 > 20 * q.s[2]
SatBelowUpper(q) == q.s[1] * 100 < 90 * q.s[2]
ValAboveLower(q) == q.v[1] * 100 > 25 * q.v[2]
Holding(q) ==
    Ind(HueAboveLower(q)) + Ind(HueBelowUpper(q)) + Ind(SatAboveLower(q))
    + Ind(SatBelowUpper(q)) + Ind(ValAboveLower(q))
IsSky(a, p) == Holding(hsv_pixel(a.px[p], Scale(a.dtype))) = 5
OnBound(q) ==
    \/ q.h[1] * 100 = 45 * q.h[2]
    \/ q.h[1] * 100 = 75 * q.h[2]
    \/ q.s[1] * 100 = 20 * q.s[2]
    \/ q.s[1] * 100 = 90 * q.s[2]
    \/ q.v[1] * 100 = 25 * q.v[2]

\* C1: the mask make_sky_filter computes is true at a pixel iff all five
\* strict predicates hold on the pixel's HSV triple; a pixel with H, S or V
\* exactly on a bound is not sky.
C1_MaskIffFivePredicates ==
    \A i \in 1..Len(calls) :
        \A p \in DOMAIN calls[i].before.px :
            LET q == hsv_pixel(calls[i].before.px[p], Scale(calls[i].before.dtype))
            IN  /\ calls[i].mask[p] <=> IsSky(calls[i].before, p)
                /\ OnBound(q) => ~calls[i].mask[p]

\* A pixel that satisfies four predicates and sits exactly on the bound of
\* the fifth has been classified, and is not sky.
C1_Witness ==
    \E i \in CallsOf("make_sky_filter") :
        \E p \in DOMAIN calls[i].before.px :
            LET q == hsv_pixel(calls[i].before.px[p], Scale(calls[i].before.dtype))
            IN  Holding(q) = 4 /\ OnBound(q) /\ ~calls[i].mask[p]

\* C2: filter_image returns every pixel that is not classified as sky
\* exactly as it was in the argument.
C2_NonSkyUnchanged ==
    \A i \in CallsOf("filter_image") :
        \A p \in DOMAIN calls[i].before.px :
            ~IsSky(calls[i].before, p) => calls[i].ret.px[p] = calls[i].before.px[p]

\* A filter_image call that whitened one pixel and kept a coloured non-sky
\* pixel of the same image.
C2_Witness ==
    \E i \in CallsOf("filter_image") :
        \E p, r \in DOMAIN calls[i].before.px :
            /\ IsSky(calls[i].before, p)
            /\ calls[i].ret.px[p] # calls[i].before.px[p]
            /\ ~IsSky(calls[i].before, r)
            /\ calls[i].before.px[r] # Black
            /\ calls[i].ret.px[r] = calls[i].before.px[r]

\* C3: in an 8-bit image, filter_image returns (255,255,255) at every pixel
\* that is classified as sky and has a non-zero channel.
C3_SkyWhitened8 ==
    \A i \in CallsOf("filter_image") :
        \A p \in DOMAIN calls[i].before.px :
            ( /\ calls[i].before.dtype = "uint8"
              /\ IsSky(calls[i].before, p)
              /\ calls[i].before.px[p] # Black )
            => calls[i].ret.px[p] = <<255, 255, 255>>

\* An 8-bit sky pixel that was not white has been whitened.
C3_Witness ==
    \E i \in CallsOf("filter_image") :
        \E p \in DOMAIN calls[i].before.px :
            /\ calls[i].before.dtype = "uint8"
            /\ IsSky(calls[i].before, p)
            /\ calls[i].before.px[p] # <<255, 255, 255>>
            /\ calls[i].ret.px[p] = <<255, 255, 255>>

\* C4: make_sky_filter returns a sky pixel unchanged and a non-sky pixel as
\* (0,0,0), in an array of the argument's height, width and 3 channels.
C4_SkyFilterContract ==
    \A i \in CallsOf("make_sky_filter") :
        /\ calls[i].ret.shape = calls[i].before.shape
        /\ DOMAIN calls[i].ret.px = Pos(calls[i].before.shape)
        /\ \A p \in DOMAIN calls[i].before.px :
            /\ Len(calls[i].ret.px[p]) = 3
            /\ IsSky(calls[i].before, p) => calls[i].ret.px[p] = calls[i].before.px[p]
            /\ ~IsSky(calls[i].before, p) => calls[i].ret.px[p] = Black

\* A make_sky_filter call on an image with a sky pixel, kept, and a coloured
\* non-sky pixel, zeroed.
C4_Witness ==
    \E i \in CallsOf("make_sky_filter") :
        \E p, r \in DOMAIN calls[i].before.px :
            /\ IsSky(calls[i].before, p)
            /\ calls[i].ret.px[p] = calls[i].before.px[p]
            /\ ~IsSky(calls[i].before, r)
            /\ calls[i].before.px[r] # Black
            /\ calls[i].ret.px[r] = Black

NoBlackSky(a) == \A p \in DOMAIN a.px : ~(IsSky(a, p) /\ a.px[p] = Black)

\* C5: filter_image applied to the result of filter_image returns an array
\* equal to that result, for every image without true-black sky pixels.
C5_Idempotent ==
    \A i, j \in CallsOf("filter_image") :
        ( /\ i < j
          /\ calls[j].arg = calls[i].res
          /\ NoBlackSky(calls[i].before) )
        => calls[j].ret = calls[i].ret

\* A second pass over a result in which the first pass whitened a pixel.
C5_Witness ==
    \E i, j \in CallsOf("filter_image") :
        /\ i < j
        /\ calls[j].arg = calls[i].res
        /\ calls[i].ret # calls[i].before
        /\ calls[j].ret = calls[i].ret

\* C6: no call changes its argument, the array a call returns is not the
\* argument's buffer, and a write of the caller to a returned array changes
\* no other array (the caller's image holds its decoded value throughout).
C6_InputNeverModified ==
    /\ heap[1] = input
    /\ \A i \in 1..Len(calls) :
        /\ calls[i].after = calls[i].before
        /\ calls[i].res # calls[i].arg
        /\ calls[i].res # wref => heap[calls[i].res] = calls[i].ret

\* The caller has written into the result of a filter_image call that
\* whitened a pixel of the caller's image.
C6_Witness ==
    /\ pc = "written"
    /\ \E i \in CallsOf("filter_image") :
        /\ calls[i].arg = 1
        /\ calls[i].res = wref
        /\ calls[i].ret # input
        /\ heap[wref] # calls[i].ret
        /\ heap[1] = input

MaxIntensity(dt) == <<Scale(dt), Scale(dt), Scale(dt)>>

\* C7: in both representations, the value filter_image writes into a
\* whitened pixel is the maximum intensity of the representation (255 for
\* 8-bit, 1.0 for normalized samples) in all three channels.
C7_WhiteIsMaxIntensity ==
    \A i \in CallsOf("filter_image") :
        \A p \in DOMAIN calls[i].before.px :
            calls[i].masked[p] => calls[i].ret.px[p] = MaxIntensity(calls[i].before.dtype)

AllBlack(a) == \A p \in DOMAIN a.px : a.px[p] = Black

\* C8: make_sky_filter of an all-black image classifies no pixel as sky and
\* returns an all-black image; filter_image returns the image unchanged.
C8_AllBlack ==
    \A i \in 1..Len(calls) :
        AllBlack(calls[i].before) =>
            /\ \A p \in DOMAIN calls[i].before.px : ~calls[i].mask[p]
            /\ AllBlack(calls[i].ret)
            /\ calls[i].ret = calls[i].before

\* Both functions have been called on an all-black image of two pixels.
C8_Witness ==
    /\ AllBlack(input)
    /\ Cardinality(DOMAIN input.px) = 2
    /\ \E i \in CallsOf("make_sky_filter") : calls[i].arg = 1 /\ AllBlack(calls[i].ret)
    /\ \E i \in CallsOf("filter_image") : calls[i].arg = 1 /\ AllBlack(calls[i].ret)

\* C9: every pixel classified as sky has all three channels > 0, and the
\* pixels filter_image selects are exactly the pixels whose mask is true.
C9_SkyPixelsNonZero ==
    \A i \in 1..Len(calls) :
        /\ \A p \in DOMAIN calls[i].before.px :
            calls[i].mask[p] => \A c \in 1..3 : calls[i].before.px[p][c] > 0
        /\ calls[i].fn = "filter_image" => calls[i].masked = calls[i].mask

\* filter_image has selected a sky pixel, and has not selected a pixel with
\* a zero channel whose hue and value are in the band.
C9_Witness ==
    \E i \in CallsOf("filter_image") :
        \E p, r \in DOMAIN calls[i].before.px :
            /\ calls[i].masked[p]
            /\ ~calls[i].masked[r]
            /\ \E c \in 1..3 : calls[i].before.px[r][c] = 0
            /\ LET q == hsv_pixel(calls[i].before.px[r], Scale(calls[i].before.dtype))
               IN  HueAboveLower(q) /\ HueBelowUpper(q) /\ ValAboveLower(q)

(***************************************************************************)
(* confirm and filter_path.                                                *)
(*                                                                         *)
(* fs is the file system as the run sees it: the kind of the input path,   *)
(* the names os.listdir gives for it, the paths that imread can open and   *)
(* decode from the working directory, and whether the output directory     *)
(* exists.  out remembers whether the output directory existed before the  *)
(* call and the files saved into it.  log lists the images read, filtered  *)
(* and saved.                                                              *)
(***************************************************************************)
PathArg == "in/a.png"
Names == {"a.png", "b.png"}

\* os.path.basename
basename(f) == IF f = PathArg THEN "a.png" ELSE f

\* What imread decodes from a path it can open.
Decoded(f) ==
    IF f = "a.png"
    THEN [dtype |-> "uint8", shape |-> <<1, 2>>,
          px |-> [q \in Pos(<<1, 2>>) |->
                    IF q = <<1, 1>> THEN <<128, 204, 255>> ELSE <<255, 0, 0>>]]
    ELSE IF f = "b.png"
    THEN [dtype |-> "uint8", shape |-> <<1, 1>>,
          px |-> [q \in Pos(<<1, 1>>) |-> <<25, 64, 64>>]]
    ELSE [dtype |-> "uint8", shape |-> <<2, 1>>,
          px |-> [q \in Pos(<<2, 1>>) |->
                    IF q = <<1, 1>> THEN <<0, 0, 0>> ELSE <<204, 204, 255>>]]

Chars == {"y", "Y", "n", "N", "x", " "}
Inputs == UNION {[1..n -> Chars] : n \in 0..MaxInputLen}

\* str.lower on one character
lower(c) == IF c = "Y" THEN "y" ELSE IF c = "N" THEN "n" ELSE c

\* Variant: any non-empty line taken as an answer.
is_answer_nonempty(inp) == Len(inp) > 0

\* the condition under which confirm returns
is_answer(inp) == Len(inp) > 0 /\ lower(inp[1]) \in {"y", "n"}

\* the value confirm returns
confirm_value(inp) == lower(inp[1]) = "y"

\* The orders in which os.listdir may give a set of names.
Orders(S) ==
    {q \in UNION {[1..n -> S] : n \in {Cardinality(S)}} :
        \A i, j \in DOMAIN q : i # j => q[i] # q[j]}

InitCoreIdle ==
    /\ input = Decoded("a.png")
    /\ heap = <<input>>
    /\ calls = <<>>
    /\ pc = "off"
    /\ wref = 0

InitPath ==
    /\ InitCoreIdle
    /\ \E kind \in {"missing", "file", "dir"} :
        \E entries \in SUBSET Names :
            \E readable \in SUBSET (Names \cup {PathArg}) :
                \E outdir \in BOOLEAN :
                    /\ kind # "dir" => entries = {}
                    /\ kind = "missing" => PathArg \notin readable
                    /\ fs = [kind |-> kind, entries |-> entries,
                             readable |-> readable, outdir |-> outdir]
                    /\ out = [existed |-> outdir, saved |-> {}]
    /\ ppc = "start"
    /\ files = <<>>
    /\ answer = <<>>
    /\ prompts = 0
    /\ log = <<>>

\* filter_path up to the exit of a missing path
PathMissing ==
    /\ ppc = "start"
    /\ fs.kind = "missing"
    /\ ppc' = "exit"
    /\ UNCHANGED <<fs, out, files, answer, prompts, log>>
    /\ UNCHANGED coreVars

\* filter_path from its start to the loop, or to the prompt of confirm when
\* the output directory exists
PathStart ==
    /\ ppc = "start"
    /\ fs.kind # "missing"
    /\ IF fs.kind # "dir"
       THEN files' = <<PathArg>>
       ELSE files' \in Orders(fs.entries)
    /\ IF ~fs.outdir
       THEN /\ fs' = [fs EXCEPT !.outdir = TRUE]
            /\ ppc' = "loop"
       ELSE /\ fs' = fs
            /\ ppc' = "confirm"
    /\ UNCHANGED <<out, answer, prompts, log>>
    /\ UNCHANGED coreVars

\* confirm reads a line that is no answer and prompts again
ConfirmReprompt ==
    /\ ppc = "confirm"
    /\ prompts < MaxPrompts
    /\ \E inp \in Inputs :
        /\ ~is_answer(inp)
        /\ answer' = inp
    /\ prompts' = prompts + 1
    /\ UNCHANGED <<fs, out, ppc, files, log>>
    /\ UNCHANGED coreVars

\* confirm reads an answer and returns; filter_path exits on False
ConfirmAnswer ==
    /\ ppc = "confirm"
    /\ \E inp \in Inputs :
        /\ is_answer(inp)
        /\ answer' = inp
        /\ ppc' = IF confirm_value(inp) THEN "loop" ELSE "exit"
    /\ prompts' = prompts + 1
    /\ UNCHANGED <<fs, out, files, log>>
    /\ UNCHANGED coreVars

\* one iteration of the loop: imread, filter_image, imsave
ProcessFile ==
    /\ ppc = "loop"
    /\ files # <<>>
    /\ Head(files) \in fs.readable
    /\ LET f == Head(files)
           image == Decoded(f)
           filtered_image == filter_image(image)
           name == basename(f)
       IN  /\ out' = [out EXCEPT !.saved =
                        {e \in out.saved : e.name # name}
                        \cup {[name |-> name, image |-> filtered_image]}]
           /\ log' = log \o <<[op |-> "read", file |-> f],
                              [op |-> "filter", file |-> f],
                              [op |-> "save", file |-> name]>>
    /\ files' = Tail(files)
    /\ UNCHANGED <<fs, ppc, answer, prompts>>
    /\ UNCHANGED coreVars

\* imread raises on a path it cannot open or decode
ReadRaises ==
    /\ ppc = "loop"
    /\ files # <<>>
    /\ Head(files) \notin fs.readable
    /\ ppc' = "raised"
    /\ UNCHANGED <<fs, out, files, answer, prompts, log>>
    /\ UNCHANGED coreVars

\* the loop ends and filter_path returns
PathReturn ==
    /\ ppc = "loop"
    /\ files = <<>>
    /\ ppc' = "done"
    /\ UNCHANGED <<fs, out, files, answer, prompts, log>>
    /\ UNCHANGED coreVars

NextPath ==
    \/ PathMissing
    \/ PathStart
    \/ ConfirmReprompt
    \/ ConfirmAnswer
    \/ ProcessFile
    \/ ReadRaises
    \/ PathReturn

SpecPath == InitPath /\ [][NextPath]_vars

StartsWith(inp, cs) == Len(inp) > 0 /\ inp[1] \in cs

\* C10: nothing is read, filtered or saved unless the path exists and the
\* output directory was created by the call or confirm returned true;
\* confirm returns only on an input that starts with y or n in either case,
\* true for y and false for n, and prompts again after any other input; a
\* run that ends on a missing path or on the answer n has written no file.
C10_GuardedProcessing ==
    /\ (log # <<>> \/ out.saved # {}) =>
        /\ fs.kind # "missing"
        /\ \/ ~out.existed /\ fs.outdir
           \/ prompts > 0 /\ StartsWith(answer, {"y", "Y"})
    /\ (~out.existed /\ ppc \in {"loop", "raised", "done"}) => fs.outdir /\ prompts = 0
    /\ prompts > 0 =>
        /\ out.existed
        /\ ppc = "confirm" <=> ~StartsWith(answer, {"y", "Y", "n", "N"})
        /\ ppc = "exit" <=> StartsWith(answer, {"n", "N"})
        /\ ppc \in {"loop", "raised", "done"} <=> StartsWith(answer, {"y", "Y"})
    /\ ppc = "exit" =>
        /\ fs.kind = "missing" \/ StartsWith(answer, {"n", "N"})
        /\ log = <<>>
        /\ out.saved = {}

\* A run that found the output directory, was prompted again after a line that
\* is no answer, got an answer that starts with Y, and saved two files.
C10_Witness ==
    /\ ppc = "done"
    /\ out.existed
    /\ prompts = 2
    /\ StartsWith(answer, {"Y"})
    /\ Len(answer) = 2
    /\ out.saved # {}
    /\ Len(log) = 6

====
